---- MODULE Spec2Model ----
(***************************************************************************)
(* Model of the package listing of pixi: Package::new and get_dir_size     *)
(* (crates/pixi_api/src/workspace/list/package.rs), the `list` command     *)
(* (crates/pixi_cli/src/list.rs) and the lock-file usage flags             *)
(* (crates/pixi_core/src/cli/mod.rs).                                      *)
(*                                                                         *)
(* Encodings: Option<T> is a sequence, None == <<>> and Some(x) == <<x>>;  *)
(* io::Result<u64> is a record [ok, val]; a String that is compared        *)
(* (package names) is a sequence of byte values.                           *)
(***************************************************************************)
EXTENDS Integers, Sequences, FiniteSets, TLC

VARIABLES
    fs,                         \* the filesystem: a tree of nodes
    registry_index,             \* Option<RegistryWheelIndex>: None or Some(sequence of entries)
    package,                    \* the PackageExt handed to Package::new
    project_dependency_names,   \* the explicit dependency names handed to Package::new
    new_result,                 \* None before the call of Package::new, then Some(its Package or its panic)
    dir_path,                   \* the path handed to get_dir_size
    dir_result,                 \* Option<io::Result<u64>>: what get_dir_size returned
    args,                       \* the parsed command line of `pixi list`
    pc,                         \* where execute() stands
    lock_file_usage,            \* Option<LockFileUsage>
    list_packages_called,       \* whether WorkspaceContext::list_packages was called
    inventory,                  \* the Vec<Package> list_packages returned
    packages_to_output,         \* the Vec<Package> after sorting
    stdout,                     \* what reached standard output
    stderr,                     \* what reached standard error
    write_error,                \* the io::ErrorKind standard output answered with
    error,                      \* the failure execute() ended with
    exit_code                   \* the exit code of the process, -1 while it runs

vars == <<fs, registry_index, package, project_dependency_names, new_result,
          dir_path, dir_result, args, pc, lock_file_usage, list_packages_called,
          inventory, packages_to_output, stdout, stderr, write_error, error, exit_code>>

newVars == <<registry_index, package, project_dependency_names, new_result>>
dirVars == <<dir_path, dir_result>>
execVars == <<args, pc, lock_file_usage, list_packages_called, inventory,
              packages_to_output, stdout, stderr, write_error, error, exit_code>>

\* ---------------------------------------------------------------- bounds

\* Most nodes (files and directories) of a traversed tree.
MaxNodes == 5

None == <<>>
Some(x) == <<x>>

Ok(n) == [ok |-> TRUE, val |-> n]
Err == [ok |-> FALSE, val |-> 0]

\* ------------------------------------------------------------ filesystem

\* Lengths std::fs::Metadata::len reports for the regular files of the model.
FileLens == {1, 2}

\* A node of the filesystem.  fault says what the operating system refuses:
\*   "stat"     the entry cannot be statted (permission, deleted, nonexistent)
\*   "read_dir" the directory can be statted but not listed
\*   "entry"    the directory iterator yields an Err for this entry
File(n) == [kind |-> "file", len |-> n, entries |-> <<>>, fault |-> "none"]
Dir(es) == [kind |-> "dir", len |-> 0, entries |-> es, fault |-> "none"]
NoStat == [kind |-> "file", len |-> 0, entries |-> <<>>, fault |-> "stat"]
NoList == [kind |-> "dir", len |-> 0, entries |-> <<>>, fault |-> "read_dir"]
BadEntry == [kind |-> "file", len |-> 0, entries |-> <<>>, fault |-> "entry"]

SeqsUpTo(S, n) == UNION {[1..k -> S] : k \in 0..n}

Leaves == {File(n) : n \in FileLens} \cup {NoStat, NoList, Dir(<<>>)}

\* The trees by their number of nodes, built size by size: table.trees[n] holds
\* the trees of exactly n nodes and table.forests[m] the sequences of directory
\* entries of m nodes in all.  A BadEntry occurs only as an entry of a directory.
ForestsOfSize(table, m) ==
    UNION {{<<t>> \o f : t \in (IF k = 1 THEN table.trees[1] \cup {BadEntry}
                                         ELSE table.trees[k]),
                          f \in (IF m = k THEN {<<>>} ELSE table.forests[m - k])}
              : k \in 1..m}

ExtendTable(table, forests) ==
    [trees |-> Append(table.trees, {Dir(es) : es \in forests}),
     forests |-> Append(table.forests, forests)]

RECURSIVE TreeTable(_, _)
TreeTable(table, n) ==
    IF Len(table.trees) >= n THEN table
    ELSE TreeTable(ExtendTable(table, ForestsOfSize(table, Len(table.trees))), n)

TreesUpTo(table, n) == UNION {table.trees[k] : k \in 1..n}

Trees == TreesUpTo(TreeTable([trees |-> <<Leaves>>, forests |-> <<>>], MaxNodes), MaxNodes)

\* Path::is_dir: false when the path cannot be statted.
is_dir(node) == node.fault # "stat" /\ node.fault # "entry" /\ node.kind = "dir"
\* Path::is_file: false when the path cannot be statted.
is_file(node) == node.fault # "stat" /\ node.fault # "entry" /\ node.kind = "file"
\* Path::metadata()?.len()
metadata_len(node) == IF node.fault \in {"stat", "entry"} THEN Err ELSE Ok(node.len)
\* fs_err::read_dir(path)?
read_dir(node) == IF node.fault = "read_dir" THEN Err ELSE Ok(0)

RECURSIVE get_dir_size(_)
RECURSIVE dir_loop(_, _, _)

\* A loop that counts a subdirectory it cannot size as empty and goes on.
RECURSIVE dir_loop_skipping(_, _, _)
dir_loop_skipping(entries, i, result) ==
    IF i > Len(entries) THEN Ok(result)
    ELSE LET entry == entries[i] IN
         IF entry.fault = "entry" THEN Err
         ELSE IF is_file(entry)
              THEN LET m == metadata_len(entry) IN
                   IF m.ok THEN dir_loop_skipping(entries, i + 1, result + m.val) ELSE Err
              ELSE LET r == get_dir_size(entry) IN
                   dir_loop_skipping(entries, i + 1, result + r.val)

\* The for loop of get_dir_size over the entries from the i-th on, with the
\* running sum in result; every `?` returns the error at once.
dir_loop(entries, i, result) ==
    IF i > Len(entries) THEN Ok(result)
    ELSE LET entry == entries[i] IN
         IF entry.fault = "entry" THEN Err
         ELSE IF is_file(entry)
              THEN LET m == metadata_len(entry) IN
                   IF m.ok THEN dir_loop(entries, i + 1, result + m.val) ELSE Err
              ELSE LET r == get_dir_size(entry) IN
                   IF r.ok THEN dir_loop(entries, i + 1, result + r.val) ELSE Err

get_dir_size(node) ==
    IF is_dir(node)
    THEN IF read_dir(node).ok THEN dir_loop(node.entries, 1, 0) ELSE Err
    ELSE metadata_len(node)

\* The node a path (a sequence of entry indices from the root) names; a path
\* that names nothing cannot be statted.
RECURSIVE Resolve(_, _)
Resolve(node, path) ==
    IF path = <<>> THEN node
    ELSE IF node.kind = "dir" /\ node.fault = "none" /\ Head(path) \in 1..Len(node.entries)
         THEN Resolve(node.entries[Head(path)], Tail(path))
         ELSE NoStat

\* -------------------------------------------------------------- records

\* Most entries the registry wheel index holds.
MaxIndexEntries == 1

\* Package names as byte strings: "a" and "a-b".
Names == {<<97>>, <<97, 45, 98>>}

\* Version strings of the lock file.  "x" stands for a version that
\* pixi_uv_conversions::to_uv_version rejects.
Versions == {"1.0", "2.0"}
PypiVersions == Versions \cup {"x"}

\* UrlOrPath: text is its Display form, path the place in fs a Path names.
Url(text) == [kind |-> "Url", text |-> text, path |-> <<>>]
Path(text, path) == [kind |-> "Path", text |-> text, path |-> path]
NoLocation == [kind |-> "-", text |-> "", path |-> <<>>]

\* The two artifacts of the filesystem that records and index entries name.
LocalPaths == {Path("./one", <<1>>), Path("./two", <<2>>)}
Locations == {Url("https://host/pkg.whl")} \cup LocalPaths

\* PackageExt::Conda(CondaPackageData::Binary | CondaPackageData::Source)
CondaRecords ==
    {[ext |-> "Conda", conda |-> "Binary", name |-> n, version |-> "1.0", build |-> "py_0",
      size |-> s, channel |-> c, location |-> NoLocation, hash |-> None, editable |-> FALSE]
        : n \in Names, s \in {None, Some(5)}, c \in {None, Some("conda-forge")}}
    \cup
    {[ext |-> "Conda", conda |-> "Source", name |-> n, version |-> "1.0", build |-> "py_0",
      size |-> s, channel |-> None, location |-> Path("./src", <<1>>), hash |-> None,
      editable |-> FALSE]
        : n \in Names, s \in {None, Some(5)}}

\* PackageExt::PyPI(PypiPackageData, PackageName)
PypiRecords ==
    {[ext |-> "PyPI", conda |-> "-", name |-> n, version |-> v, build |-> "",
      size |-> None, channel |-> None, location |-> l, hash |-> h, editable |-> e]
        : n \in Names, v \in PypiVersions, l \in Locations,
          h \in {None, Some("sha256")}, e \in BOOLEAN}

PackageExts == CondaRecords \cup PypiRecords

\* PackageKind, with the discriminants derive(PartialOrd, Ord) compares.
Conda == 0
Pypi == 1

\* A conversion that takes every record for a conda record.
PackageKind_from_always_conda(p) == Conda

\* impl From<&PackageExt> for PackageKind
PackageKind_from(p) == IF p.ext = "Conda" THEN Conda ELSE Pypi

\* PackageName::as_dist_info_name: every '-' becomes '_'.
as_dist_info_name(n) == [i \in 1..Len(n) |-> IF n[i] = 45 THEN 95 ELSE n[i]]

\* PackageExt::name
PackageExt_name(p) == IF p.ext = "Conda" THEN p.name ELSE as_dist_info_name(p.name)

\* PackageExt::version
PackageExt_version(p) == p.version

\* pixi_uv_conversions::to_uv_version: the uv form of a version, or an error.
to_uv_version(v) == IF v = "x" THEN [ok |-> FALSE, val |-> [uv |-> ""]]
                    ELSE [ok |-> TRUE, val |-> [uv |-> v]]

\* Display of a WheelFilename of the index.
WheelFilename(n, uv) == IF n = <<97>>
                        THEN (IF uv.uv = "1.0" THEN "a-1.0-py3-none-any.whl"
                              ELSE "a-2.0-py3-none-any.whl")
                        ELSE (IF uv.uv = "1.0" THEN "a_b-1.0-py3-none-any.whl"
                              ELSE "a_b-2.0-py3-none-any.whl")

\* An entry of RegistryWheelIndex: a cached wheel of a name and version at a path.
IndexEntries ==
    {[name |-> n, version |-> [uv |-> v], path |-> l.path, filename |-> WheelFilename(n, [uv |-> v])]
        : n \in Names, v \in Versions, l \in LocalPaths}

RegistryIndexes == {None} \cup {Some(es) : es \in SeqsUpTo(IndexEntries, MaxIndexEntries)}

\* RegistryWheelIndex::get(name): the entries of that name, in index order.
RECURSIVE registry_get(_, _)
registry_get(index, name) ==
    IF index = <<>> THEN <<>>
    ELSE IF Head(index).name = name
         THEN <<Head(index)>> \o registry_get(Tail(index), name)
         ELSE registry_get(Tail(index), name)

\* A find that takes the first entry of the name, whatever its version.
find_version_any(entries, version) ==
    IF entries = <<>> THEN [panicked |-> FALSE, entry |-> None]
    ELSE [panicked |-> ~to_uv_version(version).ok, entry |-> Some(Head(entries))]

\* Iterator::find with the closure of Package::new: the first entry whose version
\* equals to_uv_version(version).expect(..); the closure runs, and may panic,
\* on every entry it visits.
RECURSIVE find_version(_, _)
find_version(entries, version) ==
    IF entries = <<>> THEN [panicked |-> FALSE, entry |-> None]
    ELSE LET uv == to_uv_version(version) IN
         IF ~uv.ok THEN [panicked |-> TRUE, entry |-> None]
         ELSE IF Head(entries).version = uv.val
              THEN [panicked |-> FALSE, entry |-> Some(Head(entries))]
              ELSE find_version(Tail(entries), version)

\* A conversion that turns an error into a size of zero.
ok_or_zero(r) == IF r.ok THEN Some(r.val) ELSE Some(0)

\* Result::ok
ok(r) == IF r.ok THEN Some(r.val) ELSE None

\* A location lookup that never walks a local path.
get_pypi_location_information_no_walk(tree, location) ==
    [size |-> None, source |-> Some(location.text)]

\* get_pypi_location_information: (size, source) of a location.
get_pypi_location_information(tree, location) ==
    IF location.kind = "Url"
    THEN [size |-> None, source |-> Some(location.text)]
    ELSE [size |-> ok(get_dir_size(Resolve(tree, location.path))),
          source |-> Some(location.text)]

\* A conda arm that reports no size for a source record.
conda_size_and_source_by_variant(p) ==
    [panicked |-> FALSE,
     size |-> IF p.conda = "Source" THEN None ELSE p.size,
     source |-> IF p.conda = "Source" THEN Some(p.location.text) ELSE p.channel]

\* The PackageExt::Conda arm of the (size_bytes, source) match of Package::new.
conda_size_and_source(p) ==
    [panicked |-> FALSE,
     size |-> p.size,
     source |-> IF p.conda = "Source" THEN Some(p.location.text) ELSE p.channel]

\* The PackageExt::PyPI arm of the match, with panicked set when the version
\* conversion panics.
pypi_size_and_source(tree, p, index) ==
    IF p.hash # None
    THEN IF index # None
         THEN LET found == find_version(registry_get(index[1], p.name), p.version) IN
              [panicked |-> found.panicked,
               size |-> IF found.entry = None THEN None
                        ELSE ok(get_dir_size(Resolve(tree, found.entry[1].path))),
               source |-> IF found.entry = None THEN None
                          ELSE Some(found.entry[1].filename)]
         ELSE LET info == get_pypi_location_information(tree, p.location) IN
              [panicked |-> FALSE, size |-> info.size, source |-> info.source]
    ELSE LET info == get_pypi_location_information(tree, p.location) IN
         [panicked |-> FALSE, size |-> info.size, source |-> info.source]

\* The (size_bytes, source) match of Package::new.
size_and_source(tree, p, index) ==
    IF p.ext = "Conda" THEN conda_size_and_source(p)
    ELSE pypi_size_and_source(tree, p, index)

\* slice::contains
contains(names, name) == \E i \in 1..Len(names) : names[i] = name

NoPackage == [name |-> <<>>, version |-> "", build |-> None, size_bytes |-> None,
              kind |-> Conda, source |-> None, is_explicit |-> FALSE, is_editable |-> FALSE]

\* Package::new: the Package of a record, or a panic.
Package_new(tree, p, names, index) ==
    LET name == PackageExt_name(p)
        ss == size_and_source(tree, p, index)
    IN IF ss.panicked THEN [panicked |-> TRUE, pkg |-> NoPackage]
       ELSE [panicked |-> FALSE,
             pkg |-> [name |-> name,
                      version |-> PackageExt_version(p),
                      build |-> IF p.ext = "Conda" THEN Some(p.build) ELSE None,
                      size_bytes |-> ss.size,
                      kind |-> PackageKind_from(p),
                      source |-> ss.source,
                      is_explicit |-> contains(names, name),
                      is_editable |-> IF p.ext = "Conda" THEN FALSE ELSE p.editable]]

\* The explicit dependency names of the workspace that the model draws from.
DependencyNameLists == {<<>>, <<<<97>>>>, <<<<97, 95, 98>>, <<97>>>>}

\* The filesystems Package::new is run against: a root directory holding the
\* two artifacts ./one and ./two.
ArtifactTrees == {Dir(<<>>), File(2), Dir(<<File(1), Dir(<<File(2)>>)>>), NoStat,
                  Dir(<<File(1), NoStat>>)}
ArtifactFilesystems == {Dir(<<a, b>>) : a, b \in ArtifactTrees}

\* ---------------------------------------------------------------- sorting

\* Longest inventory list_packages returns.
MaxPackages == 3

SortBys == {"Size", "Name", "Kind"}

\* Ordering of two integers, as Ord::cmp.
int_cmp(a, b) == IF a < b THEN "Less" ELSE IF a > b THEN "Greater" ELSE "Equal"

\* Ord for String: bytewise over the common prefix, then by length.
RECURSIVE str_cmp(_, _)
str_cmp(a, b) ==
    IF a = <<>> \/ b = <<>> THEN int_cmp(Len(a), Len(b))
    ELSE IF Head(a) # Head(b) THEN int_cmp(Head(a), Head(b))
         ELSE str_cmp(Tail(a), Tail(b))

\* Option::unwrap_or
unwrap_or(o, d) == IF o = None THEN d ELSE o[1]

\* Comparators of which the one by size counts an absent size as the largest.
package_cmp_absent_last(sort_by, a, b) ==
    CASE sort_by = "Size" -> int_cmp(unwrap_or(a.size_bytes, 9), unwrap_or(b.size_bytes, 9))
      [] sort_by = "Name" -> str_cmp(a.name, b.name)
      [] sort_by = "Kind" -> int_cmp(a.kind, b.kind)

\* The three comparators execute() hands to sort_by.
package_cmp(sort_by, a, b) ==
    CASE sort_by = "Size" -> int_cmp(unwrap_or(a.size_bytes, 0), unwrap_or(b.size_bytes, 0))
      [] sort_by = "Name" -> str_cmp(a.name, b.name)
      [] sort_by = "Kind" -> int_cmp(a.kind, b.kind)

\* Where a stable sort puts x into sorted: before the first element greater than x.
RECURSIVE insert_sorted(_, _, _)
insert_sorted(sort_by, sorted, x) ==
    IF sorted = <<>> THEN <<x>>
    ELSE IF package_cmp(sort_by, Head(sorted), x) = "Greater"
         THEN <<x>> \o sorted
         ELSE <<Head(sorted)>> \o insert_sorted(sort_by, Tail(sorted), x)

\* slice::sort_by, a stable sort: equal elements keep their order.
RECURSIVE sort_by_key(_, _)
sort_by_key(sort_by, packages) ==
    IF packages = <<>> THEN <<>>
    ELSE LET n == Len(packages) IN
         insert_sorted(sort_by, sort_by_key(sort_by, SubSeq(packages, 1, n - 1)), packages[n])

\* A Package as list_packages yields it, of a kind, a name and a size.
MkPackage(kind, name, size) ==
    [name |-> name, version |-> "1.0",
     build |-> IF kind = Conda THEN Some("py_0") ELSE None,
     size_bytes |-> size, kind |-> kind, source |-> None,
     is_explicit |-> FALSE, is_editable |-> FALSE]

\* The Packages the inventories to sort are drawn from: names "a", "a_b", "b".
SortPackages ==
    {MkPackage(k, n, s) : k \in {Conda, Pypi},
                          n \in {<<97>>, <<97, 95, 98>>, <<98>>},
                          s \in {None, Some(1), Some(2)}}

\* The Packages the inventories of a run of the command are drawn from.
ListedPackages == {MkPackage(Conda, <<98>>, Some(2)), MkPackage(Pypi, <<97>>, None)}

\* ------------------------------------------------------- lock file usage

\* A validation that lets every configuration pass.
validate_nothing(config) == [ok |-> TRUE, err |-> ""]

\* LockFileUsageConfig::validate
validate(config) ==
    IF config.frozen /\ config.locked
    THEN [ok |-> FALSE, err |-> "FrozenAndLocked"]
    ELSE [ok |-> TRUE, err |-> ""]

\* impl TryFrom<LockFileUsageConfig> for LockFileUsage
try_from(config) ==
    IF ~validate(config).ok
    THEN [ok |-> FALSE, err |-> validate(config).err, val |-> ""]
    ELSE IF config.frozen THEN [ok |-> TRUE, err |-> "", val |-> "Frozen"]
    ELSE IF config.locked THEN [ok |-> TRUE, err |-> "", val |-> "Locked"]
    ELSE [ok |-> TRUE, err |-> "", val |-> "Update"]

\* The message of a failure: #[error(..)] of LockFileUsageError, the bail! of
\* execute() with its two arguments left open, the panic of println!.
error_display(err) ==
    CASE err = "FrozenAndLocked" ->
            "the argument '--locked' cannot be used together with '--frozen'"
      [] err = "no_packages" -> "No packages found in '{}' environment for '{}' platform."
      [] err = "panic" -> "failed printing to stdout"
      [] OTHER -> err

\* LockFileUpdateConfig::lock_file_usage: the conversion, its error passed on.
config_lock_file_usage(a) == try_from([frozen |-> a.frozen, locked |-> a.locked])

\* ------------------------------------------------------------ the state

NoArgs == [frozen |-> FALSE, locked |-> FALSE, json |-> FALSE, json_pretty |-> FALSE,
           sort_by |-> "Name", environment |-> "default"]
NoError == [kind |-> "", message |-> "", environment |-> "", platform |-> ""]

\* The variables of Package::new, of get_dir_size and of the command at rest.
NewIdle ==
    /\ registry_index = None
    /\ package = CHOOSE p \in CondaRecords : TRUE
    /\ project_dependency_names = <<>>
    /\ new_result = None

DirIdle == dir_path = <<>> /\ dir_result = None

ExecIdle(at) ==
    /\ pc = at
    /\ lock_file_usage = None
    /\ list_packages_called = FALSE
    /\ packages_to_output = <<>>
    /\ stdout = <<>>
    /\ stderr = <<>>
    /\ write_error = "none"
    /\ error = NoError
    /\ exit_code = -1

\* --------------------------------------------------------- Package::new

NewInit ==
    /\ fs \in ArtifactFilesystems
    /\ registry_index \in RegistryIndexes
    /\ package \in PackageExts
    /\ project_dependency_names \in DependencyNameLists
    /\ new_result = None
    /\ DirIdle
    /\ args = NoArgs
    /\ ExecIdle("idle")
    /\ inventory = <<>>

\* One call of Package::new on the record.
New ==
    /\ new_result = None
    /\ new_result' = Some(Package_new(fs, package, project_dependency_names, registry_index))
    /\ UNCHANGED <<fs, registry_index, package, project_dependency_names, dirVars, execVars>>

NewNext == New
NewSpec == NewInit /\ [][NewNext]_vars

\* --------------------------------------------------------- get_dir_size

\* The paths get_dir_size is called on: the root, its first entry, and the
\* first entry of that.
DirPaths == {<<>>, <<1>>, <<1, 1>>}

DirInit ==
    /\ fs \in Trees
    /\ NewIdle
    /\ DirIdle
    /\ args = NoArgs
    /\ ExecIdle("idle")
    /\ inventory = <<>>

\* One call of get_dir_size on a path.
GetDirSize ==
    /\ dir_result = None
    /\ \E path \in DirPaths :
        /\ dir_path' = path
        /\ dir_result' = Some(get_dir_size(Resolve(fs, path)))
    /\ UNCHANGED <<fs, newVars, execVars>>

DirNext == GetDirSize
DirSpec == DirInit /\ [][DirNext]_vars

\* ------------------------------------------------------ the sort alone

SortInit ==
    /\ fs = Dir(<<>>)
    /\ NewIdle
    /\ DirIdle
    /\ args \in {[NoArgs EXCEPT !.sort_by = k] : k \in SortBys}
    /\ ExecIdle("sort")
    /\ inventory \in SeqsUpTo(SortPackages, MaxPackages)

\* The match on args.sort_by of execute(), on the inventory as it stands.
Sort ==
    /\ pc = "sort"
    /\ packages_to_output' = sort_by_key(args.sort_by, inventory)
    /\ pc' = "sorted"
    /\ UNCHANGED <<fs, newVars, dirVars, args, lock_file_usage, list_packages_called,
                   inventory, stdout, stderr, write_error, error, exit_code>>

SortNext == Sort
SortSpec == SortInit /\ [][SortNext]_vars

\* -------------------------------------------------------------- execute

Platform == "linux-64"

ArgsSet ==
    [frozen : BOOLEAN, locked : BOOLEAN, json : BOOLEAN, json_pretty : BOOLEAN,
     sort_by : SortBys, environment : {"default", "dev"}]

\* Environment::is_default
is_default(a) == a.environment = "default"

Init ==
    /\ fs = Dir(<<>>)
    /\ NewIdle
    /\ DirIdle
    /\ args \in ArgsSet
    /\ ExecIdle("locate")
    /\ inventory = <<>>

\* execute() returns Err(kind), or bails: main reports it and exits with 1.
Fail(kind, environment, platform) ==
    /\ error' = [kind |-> kind, message |-> error_display(kind),
                 environment |-> environment, platform |-> platform]
    /\ exit_code' = 1
    /\ pc' = "done"

\* WorkspaceLocator::for_cli()...locate()?
Locate ==
    /\ pc = "locate"
    /\ \/ /\ pc' = "lock_file_usage"
          /\ UNCHANGED <<error, exit_code>>
       \/ Fail("locate", "", "")
    /\ UNCHANGED <<fs, newVars, dirVars, args, lock_file_usage, list_packages_called,
                   inventory, packages_to_output, stdout, stderr, write_error>>

\* args.lock_file_update_config.lock_file_usage()?
LockFileUsage ==
    /\ pc = "lock_file_usage"
    /\ LET r == config_lock_file_usage(args) IN
        \/ /\ r.ok
           /\ lock_file_usage' = Some(r.val)
           /\ pc' = "environment"
           /\ UNCHANGED <<error, exit_code>>
        \/ /\ ~r.ok
           /\ Fail(r.err, "", "")
           /\ UNCHANGED lock_file_usage
    /\ UNCHANGED <<fs, newVars, dirVars, args, list_packages_called,
                   inventory, packages_to_output, stdout, stderr, write_error>>

\* workspace.environment_from_name_or_env_var(..)? and the platform
SelectEnvironment ==
    /\ pc = "environment"
    /\ \/ /\ pc' = "list_packages"
          /\ UNCHANGED <<error, exit_code>>
       \/ Fail("environment", "", "")
    /\ UNCHANGED <<fs, newVars, dirVars, args, lock_file_usage, list_packages_called,
                   inventory, packages_to_output, stdout, stderr, write_error>>

\* workspace_ctx.list_packages(..).await? and the sort of what it returned
ListPackages ==
    /\ pc = "list_packages"
    /\ list_packages_called' = TRUE
    /\ \/ /\ Fail("list_packages", "", "")
          /\ UNCHANGED <<inventory, packages_to_output>>
       \/ \E pkgs \in SeqsUpTo(ListedPackages, MaxPackages) :
            /\ inventory' = pkgs
            /\ packages_to_output' = sort_by_key(args.sort_by, pkgs)
            /\ pc' = "check_empty"
            /\ UNCHANGED <<error, exit_code>>
    /\ UNCHANGED <<fs, newVars, dirVars, args, lock_file_usage, stdout, stderr, write_error>>

\* A check that lets an empty list through to the output.
CheckEmpty_never_bails ==
    /\ pc = "check_empty"
    /\ pc' = "output"
    /\ UNCHANGED <<fs, newVars, dirVars, args, lock_file_usage, list_packages_called,
                   inventory, packages_to_output, stdout, stderr, write_error,
                   error, exit_code>>

\* if packages_to_output.is_empty() { miette::bail!(..) }
CheckEmpty ==
    /\ pc = "check_empty"
    /\ \/ /\ packages_to_output = <<>>
          /\ Fail("no_packages", args.environment, Platform)
       \/ /\ packages_to_output # <<>>
          /\ pc' = "output"
          /\ UNCHANGED <<error, exit_code>>
    /\ UNCHANGED <<fs, newVars, dirVars, args, lock_file_usage, list_packages_called,
                   inventory, packages_to_output, stdout, stderr, write_error>>

\* What standard output answers a write with.
WriteOutcomes == {"none", "BrokenPipe", "Other"}

\* json_packages: one println! of the serialized list, which panics when the
\* write fails, whatever the error kind.
JsonLine(pretty, pkgs) == [tag |-> "json", pretty |-> pretty, pkgs |-> pkgs]

OutputJson ==
    /\ pc = "output"
    /\ args.json \/ args.json_pretty
    /\ \E w \in WriteOutcomes :
        /\ write_error' = w
        /\ \/ /\ w = "none"
              /\ stdout' = Append(stdout, JsonLine(args.json_pretty, packages_to_output))
              /\ pc' = "return"
              /\ UNCHANGED <<error, exit_code>>
           \/ /\ w # "none"
              /\ error' = [kind |-> "panic", message |-> error_display("panic"),
                           environment |-> "", platform |-> ""]
              /\ exit_code' = 101
              /\ pc' = "done"
              /\ UNCHANGED stdout
    /\ UNCHANGED <<fs, newVars, dirVars, args, lock_file_usage, list_packages_called,
                   inventory, packages_to_output, stderr>>

\* The lines print_packages_as_table writes: the header, then a row per package.
TableLines(pkgs) ==
    <<[tag |-> "header", pretty |-> FALSE, pkgs |-> <<>>]>>
    \o [i \in 1..Len(pkgs) |-> [tag |-> "row", pretty |-> FALSE, pkgs |-> <<pkgs[i]>>]]

\* The table branch: print_packages_as_table, then the map_err on its error.
OutputTable ==
    /\ pc = "output"
    /\ ~(args.json \/ args.json_pretty)
    /\ stderr' = IF is_default(args) THEN stderr ELSE Append(stderr, "Environment: dev")
    /\ LET lines == TableLines(packages_to_output) IN
       \E w \in WriteOutcomes :
        /\ write_error' = w
        /\ \/ /\ w = "none"
              /\ stdout' = stdout \o lines
              /\ pc' = "return"
              /\ UNCHANGED <<error, exit_code>>
           \/ /\ w = "BrokenPipe"
              /\ \E n \in 0..(Len(lines) - 1) : stdout' = stdout \o SubSeq(lines, 1, n)
              /\ exit_code' = 0
              /\ pc' = "done"
              /\ UNCHANGED error
           \/ /\ w = "Other"
              /\ \E n \in 0..(Len(lines) - 1) : stdout' = stdout \o SubSeq(lines, 1, n)
              /\ Fail("write", "", "")
    /\ UNCHANGED <<fs, newVars, dirVars, args, lock_file_usage, list_packages_called,
                   inventory, packages_to_output>>

\* Ok(())
Return ==
    /\ pc = "return"
    /\ exit_code' = 0
    /\ pc' = "done"
    /\ UNCHANGED <<fs, newVars, dirVars, args, lock_file_usage, list_packages_called,
                   inventory, packages_to_output, stdout, stderr, write_error, error>>

Next ==
    \/ Locate
    \/ LockFileUsage
    \/ SelectEnvironment
    \/ ListPackages
    \/ CheckEmpty
    \/ OutputJson
    \/ OutputTable
    \/ Return

Spec == Init /\ [][Next]_vars

\* ------------------------------------------- properties of Package::new

\* The paths of the nodes of a tree, the root's being <<>>.
RECURSIVE NodePaths(_)
NodePaths(node) ==
    {<<>>} \cup UNION {{<<i>> \o q : q \in NodePaths(node.entries[i])}
                          : i \in 1..Len(node.entries)}

\* The regular files of a tree, each by its path.
RegularFiles(node) ==
    {q \in NodePaths(node) : Resolve(node, q).kind = "file" /\ Resolve(node, q).fault = "none"}

RECURSIVE SumLens(_, _)
SumLens(node, paths) ==
    IF paths = {} THEN 0
    ELSE LET q == CHOOSE q \in paths : TRUE IN
         Resolve(node, q).len + SumLens(node, paths \ {q})

\* The metadata lengths of the regular files of a tree, summed.
ByteSum(node) == SumLens(node, RegularFiles(node))

\* Some node of the tree cannot be statted, listed or read as an entry.
Unreadable(node) == \E q \in NodePaths(node) : Resolve(node, q).fault # "none"

\* Package::new has run and returned a Package.
Returned == new_result # None /\ ~new_result[1].panicked
NewPackage == new_result[1].pkg

\* The record resolves size and source from its location alone.
FallsBackToLocation ==
    package.ext = "PyPI" /\ (package.hash = None \/ registry_index = None)

\* The record is looked up in a registry index.
LooksUpIndex ==
    package.ext = "PyPI" /\ package.hash # None /\ registry_index # None

\* The positions of the index entries of the record's name and version.
IndexMatches ==
    IF registry_index = None THEN {}
    ELSE {i \in 1..Len(registry_index[1]) :
            /\ registry_index[1][i].name = package.name
            /\ registry_index[1][i].version.uv = package.version}

FirstIndexMatch ==
    registry_index[1][CHOOSE i \in IndexMatches : \A j \in IndexMatches : i <= j]

\* C1: a Python record with a hash, given a registry index with no entry of its
\* name and version, yields size_bytes = None and source = None, whatever its
\* location is.
C1_NoIndexMatchGivesNone ==
    (Returned /\ LooksUpIndex /\ IndexMatches = {})
        => NewPackage.size_bytes = None /\ NewPackage.source = None

\* C1 happens: the index holds another version of the name, the location is a
\* readable local path, and still no size and no source come out.
C1_Witness ==
    /\ Returned /\ LooksUpIndex /\ IndexMatches = {}
    /\ Len(registry_index[1]) > 0
    /\ registry_index[1][1].name = package.name
    /\ package.location.kind = "Path"
    /\ ~Unreadable(Resolve(fs, package.location.path))
    /\ NewPackage.size_bytes = None /\ NewPackage.source = None

C3_Original ==
    (Returned /\ package.ext = "Conda") =>
        /\ NewPackage.build = Some(package.build)
        /\ package.conda = "Binary" =>
              NewPackage.size_bytes = package.size /\ NewPackage.source = package.channel
        /\ package.conda = "Source" =>
              NewPackage.size_bytes = None
              /\ NewPackage.source = Some(package.location.text)

\* C3: a conda record of either variant gives the size recorded in its metadata
\* (None when none is recorded) and its build; a binary record gives the channel
\* if any as source, a source record its location.
C3_CondaSizeAndSource ==
    (new_result # None /\ package.ext = "Conda") =>
        /\ Returned
        /\ NewPackage.build = Some(package.build)
        /\ NewPackage.size_bytes = package.size
        /\ package.conda = "Binary" => NewPackage.source = package.channel
        /\ package.conda = "Source" => NewPackage.source = Some(package.location.text)

\* C3 happens: a source record that carries a size.
C3_Witness ==
    /\ Returned /\ package.ext = "Conda" /\ package.conda = "Source"
    /\ package.size = Some(5)
    /\ NewPackage.size_bytes = Some(5)
    /\ NewPackage.source = Some(package.location.text)

\* C4: the kind of a Package is that of the record's variant; build is None
\* exactly when the kind is Pypi; is_editable is false for Conda and the
\* record's editable flag for Pypi.
C4_KindBuildEditable ==
    Returned =>
        /\ NewPackage.kind = (IF package.ext = "Conda" THEN Conda ELSE Pypi)
        /\ (NewPackage.build = None) <=> (NewPackage.kind = Pypi)
        /\ NewPackage.kind = Conda => ~NewPackage.is_editable
        /\ NewPackage.kind = Pypi => (NewPackage.is_editable <=> package.editable)

\* C4 happens: an editable Python record, named among the explicit names.
C4_Witness ==
    /\ Returned /\ package.ext = "PyPI" /\ package.editable
    /\ NewPackage.kind = Pypi /\ NewPackage.build = None /\ NewPackage.is_editable
    /\ NewPackage.is_explicit

\* The path whose size Package::new asks for cannot be traversed.
SizeTraversalFails ==
    \/ /\ FallsBackToLocation
       /\ package.location.kind = "Path"
       /\ Unreadable(Resolve(fs, package.location.path))
    \/ /\ LooksUpIndex
       /\ IndexMatches # {}
       /\ Unreadable(Resolve(fs, FirstIndexMatch.path))

SizedNode == Resolve(fs, dir_path)

\* C10: get_dir_size returns the summed metadata lengths of the regular files
\* beneath a directory, each once (0 for an empty directory), or the length of a
\* file; when an entry cannot be statted or a directory not listed, it returns
\* an I/O error and no sum.
C10_DirSizeIsByteSum ==
    dir_result # None =>
        dir_result[1] = IF Unreadable(SizedNode) THEN Err ELSE Ok(ByteSum(SizedNode))

\* C10 happens: a directory with a file and a subdirectory of two files.
C10_Witness ==
    /\ dir_result # None
    /\ dir_path = <<>>
    /\ fs.kind = "dir" /\ Len(fs.entries) = 2
    /\ \E i \in 1..2 : fs.entries[i].kind = "dir" /\ Len(fs.entries[i].entries) = 2
    /\ dir_result[1] = Ok(5)

\* -------------------------------------------------- properties of the sort

\* How often x occurs in a list.
Count(list, x) == Cardinality({i \in 1..Len(list) : list[i] = x})

\* a is at most b in the lexicographic order of byte strings.
LexLeq(a, b) ==
    \/ Len(a) <= Len(b) /\ \A k \in 1..Len(a) : a[k] = b[k]
    \/ \E k \in 1..Len(a) :
        /\ k <= Len(b)
        /\ \A j \in 1..(k - 1) : a[j] = b[j]
        /\ a[k] < b[k]

SizeOrZero(p) == IF p.size_bytes = None THEN 0 ELSE p.size_bytes[1]

\* a may stand before b in a list ordered by the key.
KeyLeq(sort_by, a, b) ==
    CASE sort_by = "Size" -> SizeOrZero(a) <= SizeOrZero(b)
      [] sort_by = "Name" -> LexLeq(a.name, b.name)
      [] sort_by = "Kind" -> ~(a.kind = Pypi /\ b.kind = Conda)

\* C9: the sorted list is a permutation of the inventory in non-decreasing order
\* of the key: size with an absent size as zero, name lexicographically, kind
\* with Conda before Pypi.
C9_SortedPermutation ==
    pc = "sorted" =>
        /\ Len(packages_to_output) = Len(inventory)
        /\ \A i \in 1..Len(inventory) :
              Count(packages_to_output, inventory[i]) = Count(inventory, inventory[i])
        /\ \A i, j \in 1..Len(packages_to_output) :
              i < j => KeyLeq(args.sort_by, packages_to_output[i], packages_to_output[j])

\* C9 happens: by size, a package of unknown size moves from the end of the
\* inventory to its front.
C9_Witness ==
    /\ pc = "sorted" /\ args.sort_by = "Size"
    /\ Len(inventory) = 3
    /\ inventory[1].size_bytes = Some(2)
    /\ inventory[3].size_bytes = None
    /\ packages_to_output[1] = inventory[3]

\* ---------------------------------------------- properties of the command

\* C6: when standard output is closed while the listing is written, the process
\* exits with 0 and reports no error, as a table and as JSON alike; any other
\* write failure ends the command with a failure and a non-zero exit code.
C6_BrokenPipeExitsZero ==
    pc = "done" =>
        /\ write_error = "BrokenPipe" => exit_code = 0 /\ error = NoError
        /\ write_error = "Other" => exit_code # 0 /\ error # NoError

\* list_packages returned an inventory, and it was empty.
EmptyInventory ==
    list_packages_called /\ pc # "list_packages" /\ error.kind # "list_packages"
    /\ inventory = <<>>

\* C7: an empty inventory ends the command in the "no packages" failure, which
\* names the environment and the platform, with a non-zero exit code and nothing
\* on standard output; standard output is written only after the emptiness check
\* has let a list of at least one Package pass.
C7_EmptyInventoryPrintsNothing ==
    /\ EmptyInventory => stdout = <<>> /\ pc \in {"check_empty", "done"}
    /\ (EmptyInventory /\ pc = "done") =>
          /\ error.kind = "no_packages"
          /\ error.environment = args.environment
          /\ error.platform = Platform
          /\ exit_code # 0
    /\ pc \in {"output", "return"} => packages_to_output # <<>>
    /\ stdout # <<>> =>
          /\ pc \in {"return", "done"}
          /\ packages_to_output # <<>>
          /\ error.kind # "no_packages"

\* C7 happens: JSON was asked for, the inventory was empty, the command failed.
C7_Witness ==
    /\ pc = "done" /\ EmptyInventory
    /\ args.json
    /\ error.kind = "no_packages" /\ exit_code = 1
    /\ stdout = <<>>

\* C8: with frozen and locked both set the conversion fails with
\* FrozenAndLocked, whose message names '--locked' and '--frozen', and
\* list_packages is never called; otherwise it gives Frozen if frozen is set,
\* Locked if locked is set, Update if neither is.
C8_ConflictingFlagsRejected ==
    /\ (args.frozen /\ args.locked) => ~list_packages_called /\ lock_file_usage = None
    /\ (pc \notin {"locate", "lock_file_usage"} /\ error.kind # "locate") =>
          IF args.frozen /\ args.locked
          THEN /\ pc = "done"
               /\ error.kind = "FrozenAndLocked"
               /\ error.message
                    = "the argument '--locked' cannot be used together with '--frozen'"
               /\ exit_code = 1
          ELSE lock_file_usage = Some(IF args.frozen THEN "Frozen"
                                      ELSE IF args.locked THEN "Locked" ELSE "Update")

\* C8 happens: both flags set, the command over without a call of list_packages.
C8_Witness ==
    /\ args.frozen /\ args.locked
    /\ pc = "done"
    /\ error.kind = "FrozenAndLocked"
    /\ ~list_packages_called

====
